---- MODULE Spec2Model ----
(***************************************************************************)
(* Model of converter/table_to_csv.py: XMLParser (incremental parsing of   *)
(* an XML file with lxml's iterparse, one callable invocation per 'end'    *)
(* event, namespace accumulation, pruning of the partially built tree) and *)
(* the command-line flow around it (delete_file, convert_to_csv).          *)
(*                                                                         *)
(* A document is a sequence of tokens.  iterparse is modelled by what the  *)
(* program observes of it: it reads the file in chunks, builds the tree    *)
(* for every token of a chunk, and hands out the queued 'start-ns' and     *)
(* 'end' events one at a time; a new chunk is read only when no event is   *)
(* queued.  Nodes are named by the index of their token in the document.   *)
(***************************************************************************)
EXTENDS Integers, Sequences, FiniteSets, TLC

\* ------------------------------------------------------------------ bounds
MaxTokens == 6      \* longest document, in tokens
MaxNs == 2          \* most namespace declarations in one document
MaxComments == 1    \* most comments in one document
MaxRuns == 2        \* command-line runs over the same input
MaxCliTokens == 4   \* longest document given to the command-line program
MaxValTokens == 4   \* longest document parsed with a rejecting validator
MaxTreeTokens == 10 \* longest document made of elements only

\* ------------------------------------------------------- document alphabet
Tags == {"r", "c"}
TagFilters == {"None", "r"}      \* tag=None matches every element

\* the namespace declarations an element may carry (at most one here)
NsDecls == {<<"", "u1">>, <<"", "u2">>, <<"p", "u1">>, <<"ns", "u2">>}
NoDecl == <<>>

\* a start tag with its tag name and namespace declaration, an end tag, a comment
Tok(k, a, decl) == [k |-> k, a |-> a, decl |-> decl]
OpenTokens == {Tok("open", t, x) : t \in Tags, x \in NsDecls \cup {NoDecl}}
CloseTok == Tok("close", "", NoDecl)
CommentTok == Tok("comment", "", NoDecl)
Tokens == OpenTokens \cup {CloseTok, CommentTok}

RECURSIVE StackAt(_, _)
\* the open elements (outermost first) after tokens 1..i of d
StackAt(d, i) ==
    IF i = 0 THEN <<>>
    ELSE LET s == StackAt(d, i - 1) IN
         CASE d[i].k = "open" -> Append(s, i)
           [] d[i].k = "close" -> SubSeq(s, 1, Len(s) - 1)
           [] OTHER -> s

Declares(d, i) == d[i].k = "open" /\ d[i].decl # NoDecl

\* A well-formed document has one root element; comments may stand before it,
\* inside it and after it.  Documents are grown token by token from the empty
\* prefix; each prefix carries its depth, whether the root was opened, and the
\* number of declarations and comments in it.
Grown(d, depth, root, ns, com) ==
    [d |-> d, depth |-> depth, root |-> root, ns |-> ns, com |-> com]

\* may token t follow the prefix x?
CanFollow(x, t) ==
    CASE t.k = "open" -> /\ x.depth > 0 \/ ~x.root
                         /\ t.decl = NoDecl \/ x.ns < MaxNs
      [] t.k = "close" -> x.depth > 0
      [] OTHER -> x.com < MaxComments

Follow(x, t) ==
    CASE t.k = "open" -> Grown(Append(x.d, t), x.depth + 1, TRUE,
                               IF t.decl = NoDecl THEN x.ns ELSE x.ns + 1, x.com)
      [] t.k = "close" -> Grown(Append(x.d, t), x.depth - 1, x.root, x.ns, x.com)
      [] OTHER -> Grown(Append(x.d, t), x.depth, x.root, x.ns, x.com + 1)

Extend(S, alphabet) ==
    {Follow(y[1], y[2]) : y \in {z \in S \X alphabet : CanFollow(z[1], z[2])}}

WellFormedIn(S) == {x.d : x \in {y \in S : y.depth = 0 /\ y.root}}

GrowingDocs[n \in 0..MaxTokens] ==
    IF n = 0 THEN {Grown(<<>>, 0, FALSE, 0, 0)}
    ELSE Extend(GrowingDocs[n - 1], Tokens)

Docs == UNION {WellFormedIn(GrowingDocs[n]) : n \in 1..MaxTokens}

\* ------------------------------------------------- reading the token list
Top(s) == IF s = <<>> THEN 0 ELSE s[Len(s)]

\* the element whose end tag is token j
ElementOf(d, j) == Top(StackAt(d, j - 1))

\* iterparse(tag=...): an 'end' event is produced only for a matching element
TagMatches(f, t) == f = "None" \/ f = t

\* iterparse(events=('start-ns', 'end')): the tokens that produce an event
IsEvent(d, f, j) ==
    \/ Declares(d, j)
    \/ d[j].k = "close" /\ TagMatches(f, d[ElementOf(d, j)].a)

IsNode(d, i) == d[i].k \in {"open", "comment"}

\* ------------------------------------------------------------------- state
VARIABLES
    doc,              \* content of xml_file
    xml_file,         \* "missing", "empty" or "nonempty"
    tag,              \* the tag filter
    python_callable,  \* "convert_to_csv", "other" (any callable) or "notcallable"
    schema,           \* "None", "valid" (compiles) or "invalid" (does not)
    schema_path,      \* args.schema: "None", or a file "nofile", "valid", "invalid"
    dtd_validation,
    violAt,           \* token at which the validator rejects doc, 0 if it never does
    pc,               \* "main", "init", "Idle", "Traversing", "Done", "Error"
    error,            \* the exception that ended the session
    built,            \* tokens the parser has read
    pendingErr,       \* the parser has noted a validation error
    pos,              \* token of the latest event taken from xml_tree
    kids,             \* node -> its children in order; 0 is the document
    cleared,          \* elements whose text and attributes were cleared
    namespaces,       \* the dict of fast_iteration
    kwargs_ns,        \* callable_kwargs holds 'namespaces' (that same dict)
    calls,            \* the invocations of python_callable so far
    csv_file,         \* the output file
    written,          \* rows appended by the current run
    removal,          \* how delete_file ended in the current run
    printed,          \* what delete_file printed in the current run
    previous,         \* rows appended by the run before the current one
    run               \* command-line runs started

inputs == <<doc, xml_file, tag, python_callable, schema_path, dtd_validation, violAt>>
parser == <<built, pendingErr>>
walker == <<pos, kids, cleared, namespaces, kwargs_ns, calls>>
files == <<csv_file, written, removal, printed, previous, run>>
vars == <<inputs, schema, pc, error, parser, walker, files>>

EmptyNs == [k \in {} |-> ""]
NoKids(d) == [n \in 0..Len(d) |-> <<>>]
NoFile == [exists |-> FALSE, rows |-> <<>>]
StaleRow == <<-1>>      \* a row left in the output file by some earlier program

\* ------------------------------------------------------------- the parser
\* libxml2 appends a node to the innermost open element, or to the document
RECURSIVE BuildTree(_, _, _, _)
BuildTree(k, d, i, b) ==
    IF i > b THEN k
    ELSE IF IsNode(d, i)
         THEN BuildTree([k EXCEPT ![Top(StackAt(d, i - 1))] = Append(@, i)], d, i + 1, b)
         ELSE BuildTree(k, d, i + 1, b)

Queued == {j \in (pos + 1)..built : IsEvent(doc, tag, j)}
NextEvent == CHOOSE j \in Queued : \A i \in Queued : j <= i
Iterating == pc \in {"Idle", "Traversing"}

\* iterparse.__next__ with no event queued: read and parse one more chunk.
\* A validation error is noted by the parser at the offending token or later,
\* at the latest when the document is closed.
Feed ==
    /\ Iterating /\ Queued = {} /\ ~pendingErr /\ built < Len(doc)
    /\ \E b \in (built + 1)..Len(doc) :
        /\ built' = b
        /\ kids' = BuildTree(kids, doc, built + 1, b)
        /\ IF violAt = 0 \/ violAt > b THEN pendingErr' = FALSE
           ELSE IF b = Len(doc) THEN pendingErr' = TRUE
           ELSE pendingErr' \in BOOLEAN
    /\ UNCHANGED <<inputs, schema, pc, error, pos, cleared, namespaces, kwargs_ns, calls, files>>

\* ---------------------------------------------------------- the live tree
Nodes == 1..Len(doc)
Holders(k, n) == {m \in DOMAIN k : \E i \in 1..Len(k[m]) : k[m][i] = n}
IndexIn(s, n) == CHOOSE i \in 1..Len(s) : s[i] = n

\* lxml getparent(): None (0) for a top-level or detached node
getparent(k, n) ==
    IF \E m \in Holders(k, n) : m # 0 THEN CHOOSE m \in Holders(k, n) : m # 0 ELSE 0

\* variant: the following sibling is looked at (getnext)
getprevious_next(k, n) ==
    IF Holders(k, n) = {} THEN 0
    ELSE LET s == k[CHOOSE m \in Holders(k, n) : TRUE]
             i == IndexIn(s, n)
         IN  IF i = Len(s) THEN 0 ELSE s[i + 1]

\* lxml getprevious(): the preceding sibling, comments before the root included
getprevious(k, n) ==
    IF Holders(k, n) = {} THEN 0
    ELSE LET s == k[CHOOSE m \in Holders(k, n) : TRUE]
             i == IndexIn(s, n)
         IN  IF i = 1 THEN 0 ELSE s[i - 1]

RECURSIVE ancestor_or_self(_, _)
\* xpath('ancestor-or-self::*'): the elements from the root down to n
ancestor_or_self(k, n) ==
    IF getparent(k, n) = 0 THEN <<n>>
    ELSE Append(ancestor_or_self(k, getparent(k, n)), n)

RECURSIVE WhilePrevious(_, _)
\* while ancestor.getprevious() is not None: del ancestor.getparent()[0]
WhilePrevious(k, a) ==
    IF getprevious(k, a) = 0 THEN [kids |-> k, ok |-> TRUE]
    ELSE IF getparent(k, a) = 0 THEN [kids |-> k, ok |-> FALSE]   \* del None[0]
    ELSE WhilePrevious([k EXCEPT ![getparent(k, a)] = Tail(@)], a)

RECURSIVE ForAncestors(_, _, _)
ForAncestors(k, list, i) ==
    IF i > Len(list) THEN [kids |-> k, ok |-> TRUE]
    ELSE LET r == WhilePrevious(k, list[i]) IN
         IF r.ok THEN ForAncestors(r.kids, list, i + 1) ELSE r

\* variant: the ancestor loop without element.clear()
Prune_keepsChildren(k, e) == ForAncestors(k, ancestor_or_self(k, e), 1)

\* element.clear() followed by the ancestor loop
Prune(k, e) ==
    LET k1 == [k EXCEPT ![e] = <<>>]
    IN  ForAncestors(k1, ancestor_or_self(k1, e), 1)

\* ------------------------------------------------------------ the handler
Text(n) == IF n \in cleared THEN 0 ELSE n       \* column.text, None once cleared
Row(k, e) == [i \in 1..Len(k[e]) |-> Text(k[e][i])]

\* convert_to_csv evaluates "ns:c1/text()" first: lxml raises on a prefix
\* that the namespaces argument does not define
XPathFails(passed, ns) == ~passed \/ "ns" \notin DOMAIN ns

\* ---------------------------------------------------- XMLParser.__init__
\* variant: only os.path.isfile is tested
is_non_empty_file_anySize(f) == f # "missing"

is_non_empty_file(f) == f = "nonempty"

Fail(e) == pc' = "Error" /\ error' = e

XMLParser_init ==
    /\ pc = "init"
    /\ IF python_callable = "notcallable" THEN Fail("TypeError")
       ELSE IF schema = "invalid" THEN Fail("SchemaCompileError")
       ELSE IF ~is_non_empty_file(xml_file) THEN Fail("InputUnavailable")
       ELSE pc' = "Idle" /\ error' = error
    /\ UNCHANGED <<inputs, schema, parser, walker, files>>

\* ------------------------------------------------ XMLParser.fast_iteration
\* variant: a prefix that is already bound keeps its first URI
Observe_keepsFirst(ns, prefix, url) ==
    LET key == IF prefix = "" THEN "ns" ELSE prefix
    IN  [x \in DOMAIN ns \cup {key} |-> IF x \in DOMAIN ns THEN ns[x] ELSE url]

\* variant: the empty prefix is stored as it comes
Observe_emptyKey(ns, prefix, url) ==
    [x \in DOMAIN ns \cup {prefix} |-> IF x = prefix THEN url ELSE ns[x]]

Observe(ns, prefix, url) ==
    LET key == IF prefix = "" THEN "ns" ELSE prefix
    IN  [x \in DOMAIN ns \cup {key} |-> IF x = key THEN url ELSE ns[x]]

StartNs ==
    /\ Iterating /\ Queued # {}
    /\ doc[NextEvent].k = "open"
    /\ namespaces' = Observe(namespaces, doc[NextEvent].decl[1], doc[NextEvent].decl[2])
    /\ pos' = NextEvent
    /\ pc' = "Traversing"
    /\ UNCHANGED <<inputs, schema, error, parser, kids, cleared, kwargs_ns, calls, files>>

\* variant: the exception is swallowed and the loop goes on
HandlerRaises_swallowed ==
    /\ pc' = "Traversing" /\ error' = error
    /\ UNCHANGED <<kids, cleared>>

\* python_callable raises: the exception leaves fast_iteration and __init__
HandlerRaises ==
    /\ Fail("HandlerFailed")
    /\ UNCHANGED <<kids, cleared>>

\* python_callable returns: element.clear(), then the ancestor loop, where
\* del None[0] raises TypeError
HandlerReturns(e) ==
    LET pruned == Prune(kids, e)
    IN  /\ kids' = pruned.kids
        /\ cleared' = cleared \cup {e}
        /\ IF pruned.ok THEN pc' = "Traversing" /\ error' = error
           ELSE Fail("PruneTypeError")

\* the arguments given at construction: the command line registers
\* convert_to_csv with csv_file by name, another caller registers its own
callable_args ==
    IF python_callable = "convert_to_csv" THEN <<>> ELSE <<"first", "second">>
supplied_kwargs ==
    IF python_callable = "convert_to_csv"
    THEN [key \in {"csv_file"} |-> "output"]
    ELSE [key \in {"option"} |-> "value"]

\* variant: the namespaces entry is set at every dispatch
callable_kwargs_always(passed) ==
    [key \in DOMAIN supplied_kwargs \cup {"namespaces"} |->
        IF key = "namespaces" THEN namespaces ELSE supplied_kwargs[key]]

\* self.callable_kwargs at the call: the supplied entries, and 'namespaces'
\* once a non-empty mapping has been put there
callable_kwargs(passed) ==
    IF passed
    THEN [key \in DOMAIN supplied_kwargs \cup {"namespaces"} |->
            IF key = "namespaces" THEN namespaces ELSE supplied_kwargs[key]]
    ELSE supplied_kwargs

Call(e, passed, outcome) ==
    [elem |-> e, at |-> NextEvent, passed |-> passed, outcome |-> outcome,
     ns |-> IF passed THEN namespaces ELSE EmptyNs,
     args |-> callable_args, kwargs |-> callable_kwargs(passed)]

End ==
    /\ Iterating /\ Queued # {}
    /\ doc[NextEvent].k = "close"
    /\ LET e == ElementOf(doc, NextEvent)
           passed == kwargs_ns \/ namespaces # EmptyNs
           Raised == /\ calls' = Append(calls, Call(e, passed, "raised"))
                     /\ HandlerRaises
           Returned == /\ calls' = Append(calls, Call(e, passed, "returned"))
                       /\ HandlerReturns(e)
       IN  /\ pos' = NextEvent
           /\ kwargs_ns' = passed
           /\ IF python_callable = "convert_to_csv"
              THEN IF XPathFails(passed, namespaces)
                   THEN Raised /\ UNCHANGED <<csv_file, written>>
                   ELSE /\ csv_file' = [exists |-> TRUE,
                                        rows |-> Append(csv_file.rows, Row(kids, e))]
                        /\ written' = Append(written, Row(kids, e))
                        /\ Returned
              ELSE /\ Raised \/ Returned
                   /\ UNCHANGED <<csv_file, written>>
    /\ UNCHANGED <<inputs, schema, parser, namespaces, removal, printed, previous, run>>

\* the iterator is exhausted: the loop ends, del xml_tree
Exhausted ==
    /\ Iterating /\ Queued = {} /\ built = Len(doc) /\ ~pendingErr
    /\ pc' = "Done"
    /\ UNCHANGED <<inputs, schema, error, parser, walker, files>>

\* the iterator raises the validation error once the queued events are gone
RaiseValidation ==
    /\ Iterating /\ Queued = {} /\ pendingErr
    /\ Fail(IF schema = "valid" THEN "SchemaViolation" ELSE "DtdViolation")
    /\ UNCHANGED <<inputs, schema, parser, walker, files>>

\* ------------------------------------------------------ command-line flow
\* what os.remove can do to file f: remove it, find nothing (ENOENT), or
\* fail with another OSError
Outcomes(f) == IF f.exists THEN {"removed", "failed"} ELSE {"absent", "failed"}
Removed(f, outcome) == IF outcome = "removed" THEN NoFile ELSE f

\* variant: every OSError is printed, ENOENT included
Printed_anyError(outcome) ==
    CASE outcome = "removed" -> "File deleted"
      [] OTHER -> "oserror"

\* the line delete_file prints: nothing when errno is ENOENT
Printed(outcome) ==
    CASE outcome = "removed" -> "File deleted"
      [] outcome = "failed" -> "oserror"
      [] OTHER -> ""

\* variant: the removal is reported but not done
delete_file_keeps ==
    \E outcome \in Outcomes(csv_file) :
        /\ csv_file' = csv_file
        /\ removal' = outcome
        /\ printed' = Printed(outcome)

\* delete_file: os.remove succeeds, finds nothing, or fails otherwise; no
\* OSError leaves the function
delete_file ==
    \E outcome \in Outcomes(csv_file) :
        /\ csv_file' = Removed(csv_file, outcome)
        /\ removal' = outcome
        /\ printed' = Printed(outcome)

Terminated == pc \in {"Done", "Error"}

ResetSession ==
    /\ built' = 0 /\ pendingErr' = FALSE
    /\ pos' = 0 /\ kids' = NoKids(doc) /\ cleared' = {}
    /\ namespaces' = EmptyNs /\ kwargs_ns' = FALSE /\ calls' = <<>>

\* one run of the program up to the construction of XMLParser;
\* is_non_empty_file(args.schema) raises TypeError when --schema is not given
Main ==
    /\ python_callable = "convert_to_csv"
    /\ pc = "main" \/ Terminated
    /\ run < MaxRuns
    /\ run' = run + 1
    /\ written' = <<>>
    /\ previous' = written
    /\ ResetSession
    /\ IF schema_path = "None"
       THEN /\ Fail("TypeError")
            /\ removal' = "none" /\ printed' = ""
            /\ UNCHANGED <<schema, csv_file>>
       ELSE /\ schema' = IF schema_path = "nofile" THEN "None" ELSE schema_path
            /\ delete_file
            /\ pc' = "init" /\ error' = ""
    /\ UNCHANGED inputs

\* ------------------------------------------------------------ the inputs
InitSession ==
    /\ error = "" /\ built = 0 /\ pendingErr = FALSE
    /\ pos = 0 /\ kids = NoKids(doc) /\ cleared = {}
    /\ namespaces = EmptyNs /\ kwargs_ns = FALSE /\ calls = <<>>
    /\ written = <<>> /\ removal = "none" /\ printed = "" /\ previous = <<>>

\* every combination of constructor arguments, over the shortest documents
InitArguments ==
    /\ xml_file \in {"missing", "empty", "nonempty"}
    /\ doc \in IF xml_file = "nonempty" THEN {d \in Docs : Len(d) <= 2} ELSE {<<>>}
    /\ python_callable \in {"other", "notcallable"}
    /\ schema \in {"None", "valid", "invalid"}
    /\ dtd_validation \in BOOLEAN

\* every document, parsed without validation for a handler that is callable
InitDocuments ==
    /\ xml_file = "nonempty"
    /\ doc \in Docs
    /\ python_callable = "other"
    /\ schema = "None"
    /\ dtd_validation = FALSE

\* XMLParser(...) constructed by a caller with a handler of its own
Init ==
    /\ InitArguments \/ InitDocuments
    /\ tag \in TagFilters
    /\ schema_path = "None"
    /\ violAt = 0
    /\ pc = "init"
    /\ csv_file = NoFile /\ run = 1
    /\ InitSession

Next ==
    \/ XMLParser_init
    \/ Feed
    \/ StartNs
    \/ End
    \/ Exhausted

Spec == Init /\ [][Next]_vars

\* documents of elements only, long enough to be wide and deep at once
TreeTokens == {Tok("open", t, NoDecl) : t \in Tags} \cup {CloseTok}

GrowingTrees[n \in 0..MaxTreeTokens] ==
    IF n = 0 THEN {Grown(<<>>, 0, FALSE, 0, 0)}
    ELSE Extend(GrowingTrees[n - 1], TreeTokens)

TreeDocs == UNION {WellFormedIn(GrowingTrees[n]) : n \in 1..MaxTreeTokens}

InitTree ==
    /\ xml_file = "nonempty"
    /\ doc \in TreeDocs
    /\ tag \in TagFilters
    /\ python_callable = "other"
    /\ schema = "None" /\ schema_path = "None"
    /\ dtd_validation = FALSE
    /\ violAt = 0
    /\ pc = "init"
    /\ csv_file = NoFile /\ run = 1
    /\ InitSession

NextTree ==
    \/ XMLParser_init
    \/ Feed
    \/ End
    \/ Exhausted

SpecTree == InitTree /\ [][NextTree]_vars

\* a DTD or a schema that may reject the document at some tag
InitValidated ==
    /\ xml_file = "nonempty"
    /\ doc \in {d \in Docs : Len(d) <= MaxValTokens}
    /\ tag \in TagFilters
    /\ python_callable = "other"
    /\ schema_path = "None"
    /\ \/ schema = "valid" /\ dtd_validation = FALSE
       \/ schema = "None" /\ dtd_validation = TRUE
    /\ violAt \in {0} \cup {i \in 1..Len(doc) : doc[i].k \in {"open", "close"}}
    /\ pc = "init"
    /\ csv_file = NoFile /\ run = 1
    /\ InitSession

NextValidated == Next \/ RaiseValidation

SpecValidated == InitValidated /\ [][NextValidated]_vars

\* the program run from the command line, MaxRuns times over the same input
InitCli ==
    /\ \/ /\ xml_file = "nonempty"
          /\ doc \in {d \in Docs : Len(d) <= MaxCliTokens}
          /\ schema_path = "nofile"
       \/ /\ xml_file \in {"missing", "empty", "nonempty"}
          /\ doc \in IF xml_file = "nonempty" THEN {d \in Docs : Len(d) <= 2} ELSE {<<>>}
          /\ schema_path \in {"None", "nofile", "valid", "invalid"}
    /\ tag \in TagFilters
    /\ python_callable = "convert_to_csv"
    /\ schema = "None"
    /\ dtd_validation = FALSE
    /\ violAt = 0
    /\ pc = "main"
    /\ csv_file \in {NoFile, [exists |-> TRUE, rows |-> <<StaleRow>>]}
    /\ run = 0
    /\ InitSession

NextCli == Main \/ Next

SpecCli == InitCli /\ [][NextCli]_vars

\* ================================================================ properties
RECURSIVE EndsFrom(_, _, _)
\* the end tags of the elements matching f, in document order
EndsFrom(d, f, i) ==
    IF i > Len(d) THEN <<>>
    ELSE IF d[i].k = "close" /\ TagMatches(f, d[ElementOf(d, i)].a)
         THEN <<i>> \o EndsFrom(d, f, i + 1)
         ELSE EndsFrom(d, f, i + 1)

MatchingEnds == EndsFrom(doc, tag, 1)
CallAts == [i \in 1..Len(calls) |-> calls[i].at]
IsPrefix(s, t) == Len(s) <= Len(t) /\ s = SubSeq(t, 1, Len(s))
IsSuffix(s, t) == Len(s) <= Len(t) /\ s = SubSeq(t, Len(t) - Len(s) + 1, Len(t))
Key(prefix) == IF prefix = "" THEN "ns" ELSE prefix
NeverRaised == \A i \in 1..Len(calls) : calls[i].outcome = "returned"
\* the session got as far as iterating over xml_tree
Traversed == Terminated /\ error \notin {"TypeError", "SchemaCompileError", "InputUnavailable"}

\* C1: in a session whose handler never fails, the handler is invoked exactly
\* once for each element matching the tag filter and for no other element, in
\* the order of the elements' end events.
C1_OncePerMatchingElement ==
    /\ IsPrefix(CallAts, MatchingEnds)
    /\ (Traversed /\ NeverRaised) => CallAts = MatchingEnds

\* C2: the namespace mapping passed at a dispatch binds every prefix declared
\* by a start-ns event earlier in the event sequence (on matching elements or
\* not), each to the URI of the latest such event, and holds nothing that is
\* declared only later.
C2_NamespacesAsOfDispatch ==
    \A i \in 1..Len(calls) :
        LET earlier == {j \in 1..(calls[i].at - 1) : Declares(doc, j)}
        IN  /\ \A j \in earlier : Key(doc[j].decl[1]) \in DOMAIN calls[i].ns
            /\ \A k \in DOMAIN calls[i].ns :
                 \E j \in earlier :
                    /\ Key(doc[j].decl[1]) = k
                    /\ calls[i].ns[k] = doc[j].decl[2]
                    /\ \A l \in earlier : l > j => Key(doc[l].decl[1]) # k

\* a dispatch that was passed a declaration made on an element the filter does
\* not match, followed by a declaration that has been observed since
C2_Witness ==
    \E i \in 1..Len(calls) :
        /\ \E j \in 1..(calls[i].at - 1) :
              Declares(doc, j) /\ ~TagMatches(tag, doc[j].a)
        /\ \E j \in (calls[i].at + 1)..pos : Declares(doc, j)

\* the mapping object handed over at call i, as the handler reads it now:
\* callable_kwargs['namespaces'] is the dict that fast_iteration keeps updating
Retained(i) == IF calls[i].passed THEN namespaces ELSE EmptyNs

\* C3: a handler that retains the mapping it was passed still observes, after
\* later start-ns events and dispatches, the bindings of its own dispatch.
C3_SnapshotByValue ==
    \A i \in 1..Len(calls) : Retained(i) = calls[i].ns

\* C4: within a session the namespace map only grows; a start-ns event binds
\* its prefix ("ns" for the empty prefix) to its URI and leaves every other
\* key as it was; an end event leaves the map unchanged.
C4_NamespaceMapGrows ==
    [][/\ DOMAIN namespaces \subseteq DOMAIN namespaces'
       /\ (pos' # pos /\ doc[pos'].k = "open") =>
            LET key == Key(doc[pos'].decl[1])
            IN  /\ DOMAIN namespaces' = DOMAIN namespaces \cup {key}
                /\ namespaces'[key] = doc[pos'].decl[2]
                /\ \A k \in DOMAIN namespaces \ {key} : namespaces'[k] = namespaces[k]
       /\ (pos' # pos /\ doc[pos'].k = "close") => namespaces' = namespaces]_vars

\* the default namespace was declared twice with different URIs and both
\* events were observed: "ns" is bound to the second URI
C4_Witness ==
    \E i, j \in 1..pos :
        /\ i < j /\ Declares(doc, i) /\ Declares(doc, j)
        /\ doc[i].decl[1] = "" /\ doc[j].decl[1] = ""
        /\ doc[i].decl[2] # doc[j].decl[2]
        /\ namespaces = [k \in {"ns"} |-> doc[j].decl[2]]

\* C5: a handler invocation that raises is the last invocation; the session
\* is then in the error state carrying that failure, with the event of the
\* failed invocation the last one consumed, and is never Done.
C5_HandlerFailureIsFatal ==
    \A i \in 1..Len(calls) :
        calls[i].outcome = "raised" =>
            /\ i = Len(calls)
            /\ pc = "Error" /\ error = "HandlerFailed"
            /\ pos = calls[i].at

\* the handler raised at its second invocation while later events remained
C5_Witness ==
    /\ Len(calls) = 2
    /\ calls[2].outcome = "raised"
    /\ \E j \in (pos + 1)..Len(doc) : IsEvent(doc, tag, j)

\* C6 as stated: with a missing or empty input the session fails to start
\* with the input-unavailable error, whatever the handler, the tag filter and
\* the validation mode, before any event is consumed or the handler invoked.
C6_InputUnavailable ==
    (xml_file \in {"missing", "empty"} /\ pc \notin {"main", "init"}) =>
        /\ pc = "Error" /\ error = "InputUnavailable"
        /\ built = 0 /\ pos = 0 /\ calls = <<>>

\* C6 as amended: with a missing or empty input the session fails to start,
\* nothing of the input is parsed, no event is consumed and the handler is
\* not invoked; the error is input-unavailable unless the handler is not
\* callable or the schema bytes do not compile, which are rejected first.
C6_FailsBeforeParsing ==
    (xml_file \in {"missing", "empty"} /\ pc \notin {"main", "init"}) =>
        /\ pc = "Error"
        /\ built = 0 /\ pos = 0 /\ calls = <<>>
        /\ error = IF python_callable = "notcallable" THEN "TypeError"
                   ELSE IF schema = "invalid" THEN "SchemaCompileError"
                   ELSE "InputUnavailable"

\* an empty input given with both a schema and DTD validation was refused
C6_Witness ==
    /\ xml_file = "empty" /\ schema = "valid" /\ dtd_validation
    /\ pc = "Error" /\ error = "InputUnavailable"

\* C7: when the schema rejects the document the session fails with the
\* schema-violation error and the handler is never invoked, wherever the
\* violation lies (the handler itself never raising).
C7_NoInvocationWhenRejected ==
    (schema = "valid" /\ violAt > 0 /\ NeverRaised) =>
        /\ calls = <<>>
        /\ Terminated => error = "SchemaViolation"

RECURSIVE Attached(_, _)
\* node n can be reached from the document
Attached(k, n) ==
    IF Holders(k, n) = {} THEN FALSE
    ELSE LET m == CHOOSE h \in Holders(k, n) : TRUE
         IN  m = 0 \/ Attached(k, m)

\* the tokens the traversal is through: every event up to there was consumed
Passed == IF Queued = {} THEN built ELSE pos
RetainedElements == {n \in 1..Passed : doc[n].k = "open" /\ Attached(kids, n)}
OpenLevels == {StackAt(doc, Passed)[i] : i \in 1..Len(StackAt(doc, Passed))}
SiblingsAtOpenLevels ==
    {n \in 1..Passed : doc[n].k = "open" /\ Top(StackAt(doc, n - 1)) \in OpenLevels}
DocDepth ==
    CHOOSE m \in 0..Len(doc) :
        /\ \E i \in 0..Len(doc) : Len(StackAt(doc, i)) = m
        /\ \A i \in 0..Len(doc) : Len(StackAt(doc, i)) <= m

\* C8: while the traversal is inside the root element the elements still
\* reachable from the document number at most the document depth plus the
\* siblings at the open levels, however many elements were completed, for
\* every tag filter.
C8_RetainedNodesBounded ==
    (Iterating /\ OpenLevels # {}) =>
        Cardinality(RetainedElements) <= DocDepth + Cardinality(SiblingsAtOpenLevels)

RECURSIVE ChildrenFrom(_, _, _)
\* the children of element e in the document, in order
ChildrenFrom(d, e, i) ==
    IF i > Len(d) THEN <<>>
    ELSE IF IsNode(d, i) /\ Top(StackAt(d, i - 1)) = e
         THEN <<i>> \o ChildrenFrom(d, e, i + 1)
         ELSE ChildrenFrom(d, e, i + 1)

\* one row per matching element, one field per child holding the child's text
ExpectedRows ==
    [i \in 1..Len(MatchingEnds) |-> ChildrenFrom(doc, ElementOf(doc, MatchingEnds[i]), 1)]

\* C9: with convert_to_csv the output of a session holds one row per matched
\* element in document order, each with one field per immediate child, in
\* child order, holding that child's text as it stands in the document.
C9_OneRowPerMatchedElement ==
    Traversed => written = ExpectedRows

\* C10 as stated: after a run, whatever the outcome of the removal step, the
\* output holds the rows written by that run and nothing else, and a second
\* run writes what the first one wrote.
C10_OutputOnlyFromThisRun ==
    (Terminated /\ removal # "none") =>
        /\ csv_file.rows = written
        /\ run >= 2 => written = previous

\* C10 as amended: that holds when the removal step removed the file or found
\* it absent; after a removal that failed the rows that were in the file stay
\* and the rows of the run follow them.
C10_OutputOnlyFromThisRunIfRemoved ==
    (Terminated /\ removal # "none") =>
        /\ removal \in {"removed", "absent"} => csv_file.rows = written
        /\ removal = "failed" => IsSuffix(written, csv_file.rows)
        /\ run >= 2 => written = previous

\* a second run removed the output of the first and wrote its rows again
C10_Witness ==
    /\ run = 2 /\ pc = "Done" /\ removal = "removed"
    /\ written # <<>> /\ csv_file.rows = written /\ previous = written

\* C11: delete_file never aborts the run.  On a path that does not exist it
\* prints nothing and changes nothing; when the removal succeeds the file is
\* gone; when it fails otherwise the failure is printed and the file is as it
\* was; in all three cases XMLParser is constructed next.  A second call right
\* after, failing if the first failed, leaves the file as the first left it.
C11_RemovalNeverAborts ==
    [][(run' # run /\ removal' # "none") =>
        /\ pc' = "init" /\ error' = ""
        /\ removal' = "absent" =>
              ~csv_file.exists /\ csv_file' = csv_file /\ printed' = ""
        /\ removal' = "removed" => csv_file.exists /\ ~csv_file'.exists
        /\ removal' = "failed" => csv_file' = csv_file /\ printed' = "oserror"
        /\ ~csv_file.exists => ~csv_file'.exists
        /\ \A again \in Outcomes(csv_file') :
              (removal' = "failed" => again = "failed") =>
                  Removed(csv_file', again) = csv_file']_vars

\* a run whose removal failed on an existing file went on to parse the input
C11_Witness ==
    /\ removal = "failed" /\ printed = "oserror" /\ csv_file.exists
    /\ pc = "Done"

\* C12: at every dispatch the handler gets the element whose end event it is,
\* the fixed positional arguments in their order, and the supplied keyword
\* arguments with their values; a namespaces entry holding the namespace map
\* is added exactly when a declaration precedes the dispatch, so a dispatch
\* before every declaration gets the supplied keyword arguments only.
C12_KeywordsAtDispatch ==
    \A i \in 1..Len(calls) :
        LET c == calls[i]
            earlier == {j \in 1..(c.at - 1) : Declares(doc, j)}
        IN  /\ c.elem = ElementOf(doc, c.at)
            /\ c.args = callable_args
            /\ \A key \in DOMAIN supplied_kwargs :
                  key \in DOMAIN c.kwargs /\ c.kwargs[key] = supplied_kwargs[key]
            /\ DOMAIN c.kwargs \subseteq DOMAIN supplied_kwargs \cup {"namespaces"}
            /\ "namespaces" \in DOMAIN c.kwargs <=> earlier # {}
            /\ earlier # {} =>
                  /\ DOMAIN c.kwargs["namespaces"] =
                        {Key(doc[j].decl[1]) : j \in earlier}
                  /\ c.kwargs["namespaces"] = c.ns

\* a dispatch before every declaration followed by one after a declaration
C12_Witness ==
    /\ Len(calls) >= 2
    /\ "namespaces" \notin DOMAIN calls[1].kwargs
    /\ "namespaces" \in DOMAIN calls[2].kwargs
    /\ calls[2].args = <<"first", "second">>

\* C13: during the traversal, for every document and tag filter, every node
\* the traversal is through that is still reachable from the document is an
\* open ancestor or a child of one (or a top-level node): no descendant of a
\* completed element is reachable once that element's end has been passed.
C13_ReachableIsFrontier ==
    Iterating =>
        \A n \in 1..Passed :
            (IsNode(doc, n) /\ Attached(kids, n)) =>
                Top(StackAt(doc, n - 1)) \in OpenLevels \cup {0}

\* the step that consumes an 'end' event, and the element it is about
EndStep == pos' # pos /\ doc[pos'].k = "close"
Ended == ElementOf(doc, pos')
\* the element's ancestors-or-self in the document, root first
Chain == StackAt(doc, pos' - 1)
DocParent(n) == Top(StackAt(doc, n - 1))
\* the token that completes node n: its end tag, or the comment itself
EndOf(n) ==
    IF doc[n].k = "comment" THEN n
    ELSE CHOOSE j \in (n + 1)..Len(doc) : doc[j].k = "close" /\ ElementOf(doc, j) = n
\* the nodes the step takes out of the child list that held them
Detached == {n \in Nodes : IsNode(doc, n) /\ Holders(kids, n) # {} /\ Holders(kids', n) = {}}
EarlierSiblingOnChain(n) ==
    \E i \in 1..Len(Chain) : DocParent(n) = DocParent(Chain[i]) /\ n < Chain[i]
\* what the step leaves in place
KeepsOpenAndPending ==
    /\ ancestor_or_self(kids, Ended) = Chain
    /\ \A i \in 1..Len(Chain) : Attached(kids', Chain[i])
    /\ \A n \in 1..built :
          (IsNode(doc, n) /\ EndOf(n) > pos') => Attached(kids', n)
    /\ \A n \in Detached : EndOf(n) < pos'

\* C14 as stated: every node removed while an element's end event is processed
\* is an earlier sibling of the element or of one of its ancestors and was
\* completed before; the element, its open ancestors and every node not yet
\* completed stay reachable, and the ancestor chain is intact at dispatch.
C14_RemovesEarlierSiblingsOnly ==
    [][EndStep => /\ KeepsOpenAndPending
                  /\ \A n \in Detached : EarlierSiblingOnChain(n)]_vars

\* C14 as the code has it: the removed nodes are the element's own children,
\* dropped by element.clear(), and the earlier siblings of the element and of
\* its ancestors; all were completed before, and the element, its open
\* ancestors and every node not yet completed stay reachable.
C14_RemovesCompletedOnly ==
    [][EndStep => /\ KeepsOpenAndPending
                  /\ \A n \in Detached :
                        DocParent(n) = Ended \/ EarlierSiblingOnChain(n)]_vars

\* a dispatched element is still reachable, an earlier sibling of its parent
\* and a child of its own are not
C14_Witness ==
    \E i \in 1..Len(calls) :
        LET e == calls[i].elem IN
        /\ Attached(kids, e)
        /\ \E n \in 1..e : /\ doc[n].k = "open" /\ n < DocParent(e)
                           /\ DocParent(n) = DocParent(DocParent(e))
                           /\ Holders(kids, n) = {}
        /\ \E n \in e..built : /\ doc[n].k = "open" /\ DocParent(n) = e
                               /\ Holders(kids, n) = {}

Reverse(list) == [i \in 1..Len(list) |-> list[Len(list) + 1 - i]]
\* the pruning of section 4.3: the same loop, from the element up to the root
PruneUpward(k, e) ==
    LET k1 == [k EXCEPT ![e] = <<>>]
    IN  ForAncestors(k1, Reverse(ancestor_or_self(k1, e)), 1)

\* C15: when the processing of an element's end event has finished, the
\* element has no children, text or attributes, every node on the path from
\* the root to the element is attached with no earlier sibling, and the tree
\* is the one that visiting the ancestors from the element upward gives.
C15_PathIsFirstChildren ==
    [][(EndStep /\ pc' = "Traversing") =>
        /\ kids'[Ended] = <<>> /\ Ended \in cleared'
        /\ \A i \in 1..Len(Chain) :
              /\ Attached(kids', Chain[i])
              /\ getprevious(kids', Chain[i]) = 0
        /\ PruneUpward(kids, Ended).ok
        /\ PruneUpward(kids, Ended).kids = kids']_vars

\* one end event has been processed and took away an earlier sibling of the
\* element and an earlier sibling of its parent
C15_Witness ==
    /\ pc = "Traversing" /\ Len(calls) = 1
    /\ LET e == calls[1].elem IN
       /\ kids[e] = <<>> /\ e \in cleared
       /\ \E n \in 1..e : /\ doc[n].k = "open" /\ DocParent(n) = DocParent(e)
                          /\ n < e /\ Holders(kids, n) = {}
       /\ \E n \in 1..e : /\ doc[n].k = "open" /\ n < DocParent(e)
                          /\ DocParent(n) = DocParent(DocParent(e))
                          /\ Holders(kids, n) = {}

\* C16: a session over a valid document whose handler never fails ends in
\* Done and in no other way; Done is reached only when every event of the
\* document has been consumed, each dispatched in its turn.
C16_EndsInDone ==
    /\ (Traversed /\ NeverRaised) => pc = "Done"
    /\ pc = "Done" =>
          /\ built = Len(doc)
          /\ {j \in (pos + 1)..Len(doc) : IsEvent(doc, tag, j)} = {}
          /\ CallAts = MatchingEnds

\* C17: the pruning of every end event ends without error, for documents with
\* nodes before the root element too: each node on the path that has an
\* earlier sibling has a parent to remove it from, and at each level exactly
\* the earlier siblings of the node on the path are removed.
C17_PruningNeverFails ==
    [][(EndStep /\ error' # "HandlerFailed") =>
        /\ error' # "PruneTypeError"
        /\ \A i \in 1..Len(Chain) :
              getprevious(kids, Chain[i]) # 0 => getparent(kids, Chain[i]) # 0
        /\ \A i \in 2..Len(Chain) :
              Len(kids[Chain[i - 1]]) - Len(kids'[Chain[i - 1]]) =
                  IndexIn(kids[Chain[i - 1]], Chain[i]) - 1]_vars

\* the declarations observed so far
Observed == {j \in 1..pos : Declares(doc, j)}

\* C18: distinct prefixes are held under distinct keys: once a default
\* namespace and an explicit prefix have been declared, in either order, the
\* key "ns" is bound to the URI of the latest default declaration.
C18_DefaultNamespaceKept ==
    /\ Cardinality(DOMAIN namespaces) =
          Cardinality({doc[j].decl[1] : j \in Observed})
    /\ \A i \in Observed :
          (/\ doc[i].decl[1] = ""
           /\ \A l \in Observed : l > i => doc[l].decl[1] # ""
           /\ \E j \in Observed : doc[j].decl[1] # "") =>
              namespaces["ns"] = doc[i].decl[2]
====
